---- MODULE Spec2Model ----
(***************************************************************************)
(* The `init` command of the Sindri CLI: directory guard, prompt sequence, *)
(* scaffolding and optional git bootstrap, as one sequential async action. *)
(* Strings are sequences of one-character strings; Ord gives the UTF-16    *)
(* code unit of each character the model uses, so that the regular         *)
(* expressions' ranges (a-z, A-Z, 0-9) are evaluated as ranges.            *)
(***************************************************************************)
EXTENDS Integers, Sequences, FiniteSets, TLC

\* ------------------------------------------------------------------ bounds
\* longest string handed to a validator or to the default derivation
MaxLen == 3
\* longest answer typed at a text prompt of the run
MaxAnswerLen == 2

\* ------------------------------------------------------------- characters
Ord ==
  [c \in {"-", ".", "/", "0", "1", "2", "3", "4", "5", "6", "7", "8", "9", ":",
          "@", "A", "B", "L", "N", "S", "W", "Z", "[", "_",
          "a", "b", "l", "n", "s", "w", "z", "{", " "} |->
     CASE c = " " -> 32  [] c = "-" -> 45  [] c = "." -> 46  [] c = "/" -> 47
       [] c = "0" -> 48  [] c = "1" -> 49  [] c = "2" -> 50  [] c = "3" -> 51
       [] c = "4" -> 52  [] c = "5" -> 53  [] c = "6" -> 54  [] c = "7" -> 55
       [] c = "8" -> 56  [] c = "9" -> 57  [] c = ":" -> 58  [] c = "@" -> 64
       [] c = "A" -> 65  [] c = "B" -> 66  [] c = "L" -> 76  [] c = "N" -> 78
       [] c = "S" -> 83  [] c = "W" -> 87  [] c = "Z" -> 90  [] c = "[" -> 91
       [] c = "_" -> 95  [] c = "a" -> 97  [] c = "b" -> 98
       [] c = "l" -> 108 [] c = "n" -> 110 [] c = "s" -> 115 [] c = "w" -> 119
       [] c = "z" -> 122 [] c = "{" -> 123]

\* the characters the validators and the derivation are exercised on: both
\* ends of every range of the regular expressions and their outer neighbours
Chars == {"-", ".", "0", "9", "A", "Z", "_", "a", "z", "@", "[", "{", "/", ":"}
\* the characters typed at the prompts of a run
AnswerChars == {"a", "Z", "0", "-", "."}

RECURSIVE StringsOver(_, _)
StringsOver(cs, n) ==
  IF n = 0 THEN {<<>>}
  ELSE LET shorter == StringsOver(cs, n - 1)
       IN  shorter \cup {Append(s, c) : s \in {t \in shorter : Len(t) = n - 1}, c \in cs}

Strings == StringsOver(Chars, MaxLen)
Answers == StringsOver(AnswerChars, MaxAnswerLen)

\* character classes of the regular expressions, by code-unit range
IsLower(c) == Ord[c] \in 97..122
IsUpper(c) == Ord[c] \in 65..90
IsDigit(c) == Ord[c] \in 48..57
\* [-a-zA-Z0-9_]
IsNameChar(c) == c = "-" \/ IsLower(c) \/ IsUpper(c) \/ IsDigit(c) \/ c = "_"
\* [a-zA-Z0-9]
IsAlnum(c) == IsLower(c) \/ IsUpper(c) \/ IsDigit(c)
\* [a-z0-9]
IsLowerAlnum(c) == IsLower(c) \/ IsDigit(c)
\* the classes as sets of characters
NameChars == {c \in DOMAIN Ord : IsNameChar(c)}
AlnumChars == {c \in DOMAIN Ord : IsAlnum(c)}

\* s.replace(/[^class]/g, r): every character outside the class becomes r;
\* the class is given as the set of its characters
\* (r is a string: <<>> deletes the character)
RECURSIVE ReplaceAllOutside(_, _, _)
ReplaceAllOutside(class, s, r) ==
  IF s = <<>> THEN <<>>
  ELSE (IF Head(s) \in class THEN <<Head(s)>> ELSE r)
         \o ReplaceAllOutside(class, Tail(s), r)

\* s.replace(/^[^a-z]*/, ""): the longest leading run of characters that are
\* not lowercase letters is removed
RECURSIVE StripLeadingNonLower(_)
StripLeadingNonLower(s) ==
  IF s = <<>> THEN <<>>
  ELSE IF IsLower(Head(s)) THEN s
  ELSE StripLeadingNonLower(Tail(s))

\* /^[class]+$/.test(s)
MatchesOneOrMore(class, s) ==
  Len(s) >= 1 /\ \A i \in 1..Len(s) : s[i] \in class

\* /^[a-z][a-z0-9]*$/.test(s)
MatchesPackagePattern(s) ==
  /\ Len(s) >= 1
  /\ IsLower(s[1])
  /\ \A i \in 2..Len(s) : IsLowerAlnum(s[i])

\* a validator's result: `true`, or the rejection message
Valid == [valid |-> TRUE, reason |-> ""]
Rejected(msg) == [valid |-> FALSE, reason |-> msg]

\* a slip in validateCircuitName: the hyphen is missing from the class
validateCircuitName_noHyphen(input) ==
  IF Len(input) = 0 THEN Rejected("You must specify a circuit name.")
  ELSE IF ~MatchesOneOrMore(AlnumChars \cup {"_"}, input)
  THEN Rejected("Only alphanumeric characters, hyphens, and underscores are allowed.")
  ELSE Valid

\* validate callback of the "Circuit Name:" prompt
validateCircuitName(input) ==
  IF Len(input) = 0 THEN Rejected("You must specify a circuit name.")
  ELSE IF ~MatchesOneOrMore(NameChars, input)
  THEN Rejected("Only alphanumeric characters, hyphens, and underscores are allowed.")
  ELSE Valid

\* a slip in validatePackageName: any alphanumeric may follow the first
\* letter, as the rejection message words it
validatePackageName_upperAllowed(input) ==
  IF Len(input) = 0 THEN Rejected("You must specify a package name.")
  ELSE IF ~(IsLower(input[1]) /\ \A i \in 2..Len(input) : IsAlnum(input[i]))
  THEN Rejected("Package names must begin with a lowercase letter and only be followed by alphanumeric characters.")
  ELSE Valid

\* a slip in validatePackageName: the emptiness test inverted, so that no
\* string passes
validatePackageName_emptinessInverted(input) ==
  IF Len(input) # 0 THEN Rejected("You must specify a package name.")
  ELSE IF ~MatchesPackagePattern(input)
  THEN Rejected("Package names must begin with a lowercase letter and only be followed by alphanumeric characters.")
  ELSE Valid

\* validate callback of the "Go Package Name:" prompt
validatePackageName(input) ==
  IF Len(input) = 0 THEN Rejected("You must specify a package name.")
  ELSE IF ~MatchesPackagePattern(input)
  THEN Rejected("Package names must begin with a lowercase letter and only be followed by alphanumeric characters.")
  ELSE Valid

\* default of the "Circuit Name:" prompt
defaultCircuitName(directoryName) == ReplaceAllOutside(NameChars, directoryName, <<"-">>)

\* a slip in defaultPackageName: /^[^a-z]/ without the star strips one
\* leading character only
defaultPackageName_oneChar(circuitName) ==
  LET alnum == ReplaceAllOutside(AlnumChars, circuitName, <<>>)
  IN  IF alnum # <<>> /\ ~IsLower(Head(alnum)) THEN Tail(alnum) ELSE alnum

\* default of the "Go Package Name:" prompt
defaultPackageName(circuitName) ==
  StripLeadingNonLower(ReplaceAllOutside(AlnumChars, circuitName, <<>>))

\* ------------------------------------------------------ the program's data
\* choices of the "Proving Framework:" selection
CircuitTypes == {"circom", "gnark", "halo2", "noir"}
\* choices of the "Proving Scheme:" selection
ProvingSchemes == {"groth16"}
\* choices of the "Curve Name:" selection
CurveNames ==
  { <<"b", "n", "2", "5", "4">>,
    <<"b", "l", "s", "1", "2", "-", "3", "7", "7">>,
    <<"b", "l", "s", "1", "2", "-", "3", "8", "1">>,
    <<"b", "l", "s", "2", "4", "-", "3", "1", "5">>,
    <<"b", "w", "6", "-", "6", "3", "3">>,
    <<"b", "w", "6", "-", "7", "6", "1">> }

\* String.prototype.toUpperCase on the characters of the model
UpperChar(c) ==
  IF IsLower(c) THEN CHOOSE d \in DOMAIN Ord : Ord[d] = Ord[c] - 32 ELSE c
toUpperCase(s) == [i \in 1..Len(s) |-> UpperChar(s[i])]

\* s.replace(from, to) with a string pattern: the first occurrence only
RECURSIVE ReplaceFirst(_, _, _)
ReplaceFirst(s, from, to) ==
  IF s = <<>> THEN <<>>
  ELSE IF Head(s) = from THEN <<to>> \o Tail(s)
  ELSE <<Head(s)>> \o ReplaceFirst(Tail(s), from, to)

\* a slip in gnarkCurveNameOf: the upper-casing left out
gnarkCurveNameOf_notUpperCased(curve) == ReplaceFirst(curve, "-", "_")

\* curveName.toUpperCase().replace("-", "_")
gnarkCurveNameOf(curve) == ReplaceFirst(toUpperCase(curve), "-", "_")

\* a slip in noisyKeys: one of the three keys left out
noisyKeys_withoutOutput == {"stderr", "stdout"}

\* keys of the caught error that are overwritten before it is logged
noisyKeys == {"output", "stderr", "stdout"}

\* ------------------------------------------------------- the environment
\* resolved target paths of a run: the filesystem root (whose base name is
\* empty) and a directory below it; a path is the sequence of its segments
Paths == { <<>>, << <<"Z", ".", "a">> >> }
\* path.basename(directoryPath)
basename(p) == IF p = <<>> THEN <<>> ELSE p[Len(p)]

\* entries the target directory may hold before the run
PreFiles == {".git", "main.go"}

\* what one call of scaffoldDirectory may do: the files it writes, and
\* whether it then resolves or rejects
ScaffoldOutcomes(template) ==
  IF template = "common"
  THEN { [ok |-> TRUE,  written |-> {".gitkeep", "sindri.json"}],
         [ok |-> TRUE,  written |-> {"sindri.json"}],
         [ok |-> FALSE, written |-> {}],
         [ok |-> FALSE, written |-> {"sindri.json"}] }
  ELSE { [ok |-> TRUE,  written |-> {"main.go"}],
         [ok |-> FALSE, written |-> {}],
         [ok |-> FALSE, written |-> {"main.go"}] }

\* errors execSync may throw for a failing command: any of the noisy keys
\* may be present, next to fields that are not noisy
ExecErrors ==
  { [status |-> "1", message |-> "Command failed"],
    [status |-> "1", message |-> "Command failed", stderr |-> "raw"],
    [status |-> "1", message |-> "Command failed",
     output |-> "raw", stderr |-> "raw", stdout |-> "raw"] }

\* ------------------------------------------------------------------ state
VARIABLES
  directoryPath,      \* path.resolve(directory)
  pathKind,           \* what is at directoryPath: "absent", "file" or "dir"
  files,              \* entries of the directory: name -> who wrote it
  fsMutations,        \* mkdirSync / rmSync calls made by the action, in order
  pc,                 \* where the async action is suspended
  prompts,            \* prompts asked so far, in order
  circuitNameDefault, \* default offered by the "Circuit Name:" prompt
  packageNameDefault, \* default offered by the "Go Package Name:" prompt
  feedback,           \* rejection message shown by the pending text prompt
  circuitName, circuitType, packageName, provingScheme, curveName,
  context,            \* the context object's values
  contextKeys,        \* the keys the context object has
  renderCalls,        \* calls of scaffoldDirectory, in order
  renderResults,      \* whether each settled scaffoldDirectory call resolved (TRUE)
  execCalls,          \* calls of execSync, in order
  proceed,            \* answer to the overwrite confirmation: {} until given
  initializeGit,      \* answer to the git confirmation: {} until given
  execResults,        \* whether each settled execSync call returned (TRUE) or threw
  gitInstalled,
  gitOutcome,         \* "none", "Skipped", "Succeeded" or "Failed"
  thrownError,        \* the error a bootstrap command threw, as thrown
  loggedError,        \* the object passed to logger.error, if any
  log,                \* messages logged, in order
  exitStatus,         \* {} while running, {1} after process.exit(1), {0} on return
  fnOp, fnIn, fnOut   \* a validator or derivation applied on its own

vars == <<directoryPath, pathKind, files, fsMutations, pc, prompts,
          circuitNameDefault, packageNameDefault, feedback,
          circuitName, circuitType, packageName, provingScheme, curveName,
          context, contextKeys, renderCalls, renderResults, execCalls, gitInstalled,
          gitOutcome, loggedError, thrownError, log, exitStatus, proceed, initializeGit,
          execResults, fnOp, fnIn, fnOut>>

fnVars == <<fnOp, fnIn, fnOut>>
fsVars == <<pathKind, files, fsMutations>>
answerVars == <<circuitName, circuitType, packageName, provingScheme, curveName>>
promptVars == <<prompts, circuitNameDefault, packageNameDefault, feedback>>
gitVars == <<execCalls, execResults, gitInstalled, initializeGit, gitOutcome, loggedError, thrownError>>

NoContext ==
  [circuitName |-> <<>>, circuitType |-> "", packageName |-> <<>>,
   provingScheme |-> "", curveName |-> <<>>, gnarkCurveName |-> <<>>]

Logged(level, msg) == [level |-> level, msg |-> msg]

\* the state of the run when the action is entered
InitRun ==
  /\ directoryPath \in Paths
  /\ pathKind \in {"absent", "file", "dir"}
  /\ directoryPath = <<>> => pathKind = "dir"
  /\ \E present \in SUBSET PreFiles :
       /\ pathKind # "dir" => present = {}
       /\ files = [f \in present |-> "pre"]
  /\ fsMutations = <<>>
  /\ pc = "start"
  /\ prompts = <<>>
  /\ circuitNameDefault = <<>>
  /\ packageNameDefault = <<>>
  /\ feedback = ""
  /\ circuitName = <<>>
  /\ circuitType = ""
  /\ packageName = <<>>
  /\ provingScheme = ""
  /\ curveName = <<>>
  /\ context = NoContext
  /\ contextKeys = {}
  /\ renderCalls = <<>>
  /\ renderResults = <<>>
  /\ execCalls = <<>>
  /\ gitInstalled = FALSE
  /\ gitOutcome = "none"
  /\ loggedError = {}
  /\ thrownError = {}
  /\ log = <<>>
  /\ exitStatus = {}
  /\ proceed = {}
  /\ initializeGit = {}
  /\ execResults = <<>>

Init ==
  /\ InitRun
  /\ fnOp = "none"
  /\ fnIn = <<>>
  /\ fnOut = <<>>

\* ------------------------------------------------- steps of the init action
\* process.exit(1)
Exit1 ==
  /\ pc' = "exited"
  /\ exitStatus' = {1}

\* the action returns: the process ends with the implicit status 0
Return0 ==
  /\ pc' = "returned"
  /\ exitStatus' = {0}

\* a slip in existsAndIsNotDirectory: the negation of isDirectory() dropped
existsAndIsNotDirectory_negationDropped(kind) == kind # "absent" /\ kind = "dir"

\* existsSync(directoryPath) && !statSync(directoryPath).isDirectory()
existsAndIsNotDirectory(kind) == kind # "absent" /\ kind # "dir"

\* a slip in directoryHasFiles: off by one
directoryHasFiles_offByOne(existingFiles) == Cardinality(existingFiles) > 1

\* existingFiles.length > 0
directoryHasFiles(existingFiles) == Cardinality(existingFiles) > 0

\* a slip in isSupportedCircuitType: a second kind let through
isSupportedCircuitType_circomToo(kind) == kind = "gnark" \/ kind = "circom"

\* circuitType === "gnark"
isSupportedCircuitType(kind) == kind = "gnark"

\* a slip in shouldOfferGit: the existing repository is not looked at
shouldOfferGit_ignoresExisting(installed, alreadyInitialized) == installed

\* gitInstalled && !gitAlreadyInitialized
shouldOfferGit(installed, alreadyInitialized) == installed /\ ~alreadyInitialized

\* a call of a filesystem function that changes the filesystem
FsCall(op, target) == [op |-> op, target |-> target]

\* a slip in mkdirCall: the recursive option left out
mkdirCall_notRecursive ==
  [op |-> "mkdirSync", target |-> ".", recursive |-> FALSE]

\* mkdirSync(directoryPath, { recursive: true })
mkdirCall == [op |-> "mkdirSync", target |-> ".", recursive |-> TRUE]

\* a slip in gitKeepFile: another dot file is looked for
gitKeepFile_misnamed == ".gitignore"

\* path.join(directoryPath, ".gitkeep"), as an entry of the directory
gitKeepFile == ".gitkeep"

\* await input({ message: "Circuit Name:", default: ..., validate: ... })
AskCircuitName ==
  /\ pc' = "circuitName"
  /\ prompts' = Append(prompts, "circuitName")
  /\ circuitNameDefault' = defaultCircuitName(basename(directoryPath))
  /\ UNCHANGED <<packageNameDefault, feedback>>

\* from the entry of the action to its first suspension
DirectoryGuard ==
  /\ pc = "start"
  /\ IF pathKind = "absent"
     THEN /\ pathKind' = "dir"
          /\ files' = files
          /\ fsMutations' = Append(fsMutations, mkdirCall)
          /\ AskCircuitName
          /\ UNCHANGED <<log, exitStatus>>
     ELSE IF existsAndIsNotDirectory(pathKind)
     THEN /\ log' = Append(log, Logged("warn", "exists and is not a directory, aborting"))
          /\ Exit1
          /\ UNCHANGED <<fsVars, promptVars>>
     ELSE IF directoryHasFiles(DOMAIN files)
     THEN /\ pc' = "overwrite"
          /\ prompts' = Append(prompts, "overwrite")
          /\ UNCHANGED <<fsVars, circuitNameDefault, packageNameDefault, feedback,
                         log, exitStatus>>
     ELSE /\ AskCircuitName
          /\ UNCHANGED <<fsVars, log, exitStatus>>
  /\ UNCHANGED <<directoryPath, proceed, answerVars, context, contextKeys,
                 renderCalls, renderResults, gitVars, fnVars>>

\* the overwrite confirmation is answered
AnswerOverwrite(answer) ==
  /\ pc = "overwrite"
  /\ proceed' = {answer}
  /\ IF ~answer
     THEN /\ log' = Append(log, Logged("info", "Aborting."))
          /\ Exit1
          /\ UNCHANGED promptVars
     ELSE /\ AskCircuitName
          /\ UNCHANGED <<log, exitStatus>>
  /\ UNCHANGED <<directoryPath, fsVars, answerVars, context, contextKeys,
                 renderCalls, renderResults, gitVars, fnVars>>

\* a line is submitted to the "Circuit Name:" prompt
AnswerCircuitName(input) ==
  /\ pc = "circuitName"
  /\ LET verdict == validateCircuitName(input) IN
     IF verdict.valid
     THEN /\ circuitName' = input
          /\ feedback' = ""
          /\ pc' = "circuitType"
          /\ prompts' = Append(prompts, "circuitType")
     ELSE /\ feedback' = verdict.reason
          /\ UNCHANGED <<circuitName, pc, prompts>>
  /\ UNCHANGED <<directoryPath, fsVars, circuitNameDefault, packageNameDefault,
                 circuitType, packageName, provingScheme, curveName, context,
                 contextKeys, renderCalls, renderResults, gitVars, log, exitStatus, proceed, fnVars>>

\* a slip in packageNameDefaultSource: the offered default of the circuit
\* name is used, not the answer
packageNameDefaultSource_offeredName == circuitNameDefault

\* the string the "Go Package Name:" default is derived from
packageNameDefaultSource == circuitName

\* a choice is made at the "Proving Framework:" selection
AnswerCircuitType(kind) ==
  /\ pc = "circuitType"
  /\ circuitType' = kind
  /\ context' = [context EXCEPT !.circuitName = circuitName, !.circuitType = kind]
  /\ contextKeys' = {"circuitName", "circuitType"}
  /\ IF isSupportedCircuitType(kind)
     THEN /\ pc' = "packageName"
          /\ prompts' = Append(prompts, "packageName")
          /\ packageNameDefault' = defaultPackageName(packageNameDefaultSource)
          /\ UNCHANGED <<circuitNameDefault, feedback, log, exitStatus>>
     ELSE /\ log' = Append(log, Logged("fatal", "not yet supported"))
          /\ Exit1
          /\ UNCHANGED promptVars
  /\ UNCHANGED <<directoryPath, fsVars, circuitName, packageName, provingScheme,
                 curveName, renderCalls, renderResults, gitVars, proceed, fnVars>>

\* a line is submitted to the "Go Package Name:" prompt
AnswerPackageName(input) ==
  /\ pc = "packageName"
  /\ LET verdict == validatePackageName(input) IN
     IF verdict.valid
     THEN /\ packageName' = input
          /\ feedback' = ""
          /\ pc' = "provingScheme"
          /\ prompts' = Append(prompts, "provingScheme")
     ELSE /\ feedback' = verdict.reason
          /\ UNCHANGED <<packageName, pc, prompts>>
  /\ UNCHANGED <<directoryPath, fsVars, circuitNameDefault, packageNameDefault,
                 circuitName, circuitType, provingScheme, curveName, context,
                 contextKeys, renderCalls, renderResults, gitVars, log, exitStatus, proceed, fnVars>>

\* a choice is made at the "Proving Scheme:" selection
AnswerProvingScheme(scheme) ==
  /\ pc = "provingScheme"
  /\ provingScheme' = scheme
  /\ pc' = "curveName"
  /\ prompts' = Append(prompts, "curveName")
  /\ UNCHANGED <<directoryPath, fsVars, circuitNameDefault, packageNameDefault,
                 feedback, circuitName, circuitType, packageName, curveName,
                 context, contextKeys, renderCalls, renderResults, gitVars, log, exitStatus, proceed, fnVars>>

\* a call of scaffoldDirectory(template, directoryPath, context)
ScaffoldCall(template, ctx, keys) ==
  [template |-> template, directory |-> directoryPath, context |-> ctx, keys |-> keys]

\* the entries of the directory after a scaffoldDirectory call wrote `written`
FilesAfterWrite(fs, written, by) ==
  [f \in DOMAIN fs \cup written |-> IF f \in written THEN by ELSE fs[f]]

\* a slip in kindTemplate: the shared template set rendered twice
kindTemplate_common == "common"

\* the template set of the second scaffoldDirectory call
kindTemplate == circuitType

\* Object.assign(target, source) on the values of the context
ObjectAssign(target, source) ==
  [key \in DOMAIN target |-> IF key \in DOMAIN source THEN source[key] ELSE target[key]]

\* a slip in assignedToContext: a field the context already has is assigned too
assignedToContext_overwritesName(curve) ==
  [circuitName |-> packageName,
   curveName |-> curve,
   gnarkCurveName |-> gnarkCurveNameOf(curve),
   packageName |-> packageName,
   provingScheme |-> provingScheme]

\* the object whose fields Object.assign adds to the context
assignedToContext(curve) ==
  [curveName |-> curve,
   gnarkCurveName |-> gnarkCurveNameOf(curve),
   packageName |-> packageName,
   provingScheme |-> provingScheme]

\* a choice is made at the "Curve Name:" selection; the context is completed
\* and the first scaffoldDirectory call is made
AnswerCurveName(curve) ==
  /\ pc = "curveName"
  /\ curveName' = curve
  /\ LET source == assignedToContext(curve)
         ctx == ObjectAssign(context, source)
         keys == contextKeys \cup DOMAIN source
     IN /\ context' = ctx
        /\ contextKeys' = keys
        /\ renderCalls' = Append(renderCalls, ScaffoldCall("common", ctx, keys))
  /\ log' = Append(log, Logged("info", "Proceeding to generate scaffolded project"))
  /\ pc' = "scaffoldCommon"
  /\ UNCHANGED <<directoryPath, fsVars, promptVars, circuitName, circuitType,
                 packageName, provingScheme, renderResults, gitVars, exitStatus,
                 proceed, fnVars>>

\* a slip in scaffoldRejects: the rejection is swallowed
scaffoldRejects_swallowed(outcome) == FALSE

\* an awaited scaffoldDirectory call that rejects throws out of the action
scaffoldRejects(outcome) == ~outcome.ok

\* scaffoldDirectory("common", ...) settles
ScaffoldCommonSettles(outcome) ==
  /\ pc = "scaffoldCommon"
  /\ files' = FilesAfterWrite(files, outcome.written, "common")
  /\ renderResults' = Append(renderResults, outcome.ok)
  /\ IF scaffoldRejects(outcome)
     THEN /\ pc' = "rejected"
          /\ UNCHANGED renderCalls
     ELSE /\ renderCalls' =
               Append(renderCalls, ScaffoldCall(kindTemplate, context, contextKeys))
          /\ pc' = "scaffoldKind"
  /\ UNCHANGED <<directoryPath, pathKind, fsMutations, promptVars, answerVars,
                 context, contextKeys, gitVars, log, exitStatus, proceed, fnVars>>

\* an execSync call
ExecCall(cmd, cwd) == [cmd |-> cmd, cwd |-> cwd]

\* scaffoldDirectory(circuitType, ...) settles; on success the placeholder
\* is removed and git is probed
ScaffoldKindSettles(outcome) ==
  /\ pc = "scaffoldKind"
  /\ renderResults' = Append(renderResults, outcome.ok)
  /\ LET rendered == FilesAfterWrite(files, outcome.written, circuitType) IN
     IF scaffoldRejects(outcome)
     THEN /\ files' = rendered
          /\ pc' = "rejected"
          /\ UNCHANGED <<fsMutations, log, execCalls>>
     ELSE /\ IF gitKeepFile \in DOMAIN rendered
             THEN /\ files' = [f \in DOMAIN rendered \ {gitKeepFile} |-> rendered[f]]
                  /\ fsMutations' = Append(fsMutations, FsCall("rmSync", gitKeepFile))
             ELSE /\ files' = rendered
                  /\ UNCHANGED fsMutations
          /\ log' = Append(log, Logged("info", "Project scaffolding successful."))
          /\ execCalls' = Append(execCalls, ExecCall("git --version", {}))
          /\ pc' = "gitVersion"
  /\ UNCHANGED <<directoryPath, pathKind, promptVars, answerVars, context,
                 contextKeys, renderCalls, execResults, gitInstalled, initializeGit,
                 gitOutcome, loggedError, thrownError, exitStatus, proceed, fnVars>>

\* execSync("git --version") returns or throws; then the confirmation is
\* asked, or the action returns
GitVersionSettles(ok) ==
  /\ pc = "gitVersion"
  /\ execResults' = Append(execResults, ok)
  /\ gitInstalled' = ok
  /\ LET gitAlreadyInitialized == ".git" \in DOMAIN files
         probed == IF ok THEN log
                   ELSE Append(log, Logged("debug", "Git is not installed"))
     IN IF shouldOfferGit(ok, gitAlreadyInitialized)
        THEN /\ prompts' = Append(prompts, "initializeGit")
             /\ pc' = "initializeGit"
             /\ log' = probed
             /\ UNCHANGED <<gitOutcome, exitStatus>>
        ELSE /\ gitOutcome' = "Skipped"
             /\ log' = probed
             /\ Return0
             /\ UNCHANGED prompts
  /\ UNCHANGED <<directoryPath, fsVars, circuitNameDefault, packageNameDefault,
                 feedback, answerVars, context, contextKeys, renderCalls, renderResults,
                 execCalls, initializeGit, loggedError, thrownError, proceed, fnVars>>

\* a slip in bootstrapCommands: staging before the repository exists
bootstrapCommands_addFirst ==
  <<"git add .", "git init .", "git commit -m 'Initial commit.'">>

\* the commands of the try block, in the order it runs them
bootstrapCommands ==
  <<"git init .", "git add .", "git commit -m 'Initial commit.'">>

\* the "initialize a git repository" confirmation is answered
AnswerInitializeGit(answer) ==
  /\ pc = "initializeGit"
  /\ initializeGit' = {answer}
  /\ IF answer
     THEN /\ log' = Append(log, Logged("info", "Initializing git repository"))
          /\ execCalls' =
               Append(execCalls, ExecCall(bootstrapCommands[1], {directoryPath}))
          /\ pc' = "bootstrap1"
          /\ UNCHANGED <<gitOutcome, exitStatus>>
     ELSE /\ gitOutcome' = "Skipped"
          /\ Return0
          /\ UNCHANGED <<log, execCalls>>
  /\ UNCHANGED <<directoryPath, fsVars, promptVars, answerVars, context,
                 contextKeys, renderCalls, renderResults, execResults, gitInstalled, loggedError, thrownError,
                 proceed, fnVars>>

\* the caught error with its noisy keys overwritten
truncated(execError) ==
  [key \in DOMAIN execError |->
     IF key \in noisyKeys THEN "<truncated>" ELSE execError[key]]

\* a slip in CatchExecError: the failure ends the process with status 1
CatchExecError_exits(execError) ==
  /\ log' = Append(log, Logged("error",
                               "Error occurred while initializing the git repository."))
  /\ thrownError' = {execError}
  /\ loggedError' = {truncated(execError)}
  /\ gitOutcome' = "Failed"
  /\ Exit1
  /\ UNCHANGED <<files, execCalls>>

\* the catch block of the git initialization
CatchExecError(execError) ==
  /\ log' = Append(log, Logged("error",
                               "Error occurred while initializing the git repository."))
  /\ thrownError' = {execError}
  /\ loggedError' = {truncated(execError)}
  /\ gitOutcome' = "Failed"
  /\ Return0
  /\ UNCHANGED <<files, execCalls>>

\* what a bootstrap command that succeeded did to the directory: git init
\* creates the repository, git add and git commit write inside it
FilesAfterCommand(fs, cmd) ==
  IF cmd = "git init ." \/ ".git" \in DOMAIN fs
  THEN FilesAfterWrite(fs, {".git"}, "git")
  ELSE fs

\* the n-th execSync call of the try block returns or throws
BootstrapCommandSettles(n, ok, execError) ==
  /\ pc = "bootstrap1" \/ pc = "bootstrap2" \/ pc = "bootstrap3"
  /\ pc = IF n = 1 THEN "bootstrap1" ELSE IF n = 2 THEN "bootstrap2" ELSE "bootstrap3"
  /\ execResults' = Append(execResults, ok)
  /\ IF ~ok
     THEN CatchExecError(execError)
     ELSE /\ files' = FilesAfterCommand(files, bootstrapCommands[n])
          /\ IF n < Len(bootstrapCommands)
             THEN /\ execCalls' =
                       Append(execCalls, ExecCall(bootstrapCommands[n + 1], {directoryPath}))
                  /\ pc' = (IF n = 1 THEN "bootstrap2" ELSE "bootstrap3")
                  /\ UNCHANGED <<log, loggedError, thrownError, gitOutcome, exitStatus>>
             ELSE /\ log' = Append(log, Logged("info",
                                               "Successfully initialized git repository."))
                  /\ gitOutcome' = "Succeeded"
                  /\ Return0
                  /\ UNCHANGED <<execCalls, loggedError, thrownError>>
  /\ UNCHANGED <<directoryPath, pathKind, fsMutations, promptVars, answerVars,
                 context, contextKeys, renderCalls, renderResults, gitInstalled, initializeGit,
                 proceed, fnVars>>

\* execSync("git init .") returns or throws
GitInitSettles(ok, execError) == BootstrapCommandSettles(1, ok, execError)

\* execSync("git add .") returns or throws
GitAddSettles(ok, execError) == BootstrapCommandSettles(2, ok, execError)

\* execSync("git commit -m 'Initial commit.'") returns or throws
GitCommitSettles(ok, execError) == BootstrapCommandSettles(3, ok, execError)

Next ==
  \/ DirectoryGuard
  \/ \E answer \in BOOLEAN : AnswerOverwrite(answer)
  \/ \E input \in Answers : AnswerCircuitName(input)
  \/ \E kind \in CircuitTypes : AnswerCircuitType(kind)
  \/ \E input \in Answers : AnswerPackageName(input)
  \/ \E scheme \in ProvingSchemes : AnswerProvingScheme(scheme)
  \/ \E curve \in CurveNames : AnswerCurveName(curve)
  \/ \E outcome \in ScaffoldOutcomes("common") : ScaffoldCommonSettles(outcome)
  \/ \E outcome \in ScaffoldOutcomes(circuitType) : ScaffoldKindSettles(outcome)
  \/ \E ok \in BOOLEAN : GitVersionSettles(ok)
  \/ \E answer \in BOOLEAN : AnswerInitializeGit(answer)
  \/ \E ok \in BOOLEAN, execError \in ExecErrors : GitInitSettles(ok, execError)
  \/ \E ok \in BOOLEAN, execError \in ExecErrors : GitAddSettles(ok, execError)
  \/ \E ok \in BOOLEAN, execError \in ExecErrors : GitCommitSettles(ok, execError)

Spec == Init /\ [][Next]_vars

\* a step that takes the action to its next suspension or to its end: a
\* prompt answered with an answer that is accepted, or a call that settles
Progress == Next /\ pc' # pc

\* the run under the scheduling it has: a pending prompt is eventually
\* answered acceptably, a pending call eventually settles
SpecLive == Init /\ [][Next]_vars /\ WF_vars(Progress)

\* ------------------------------ the validators and the derivation on their own
\* every string over Chars up to MaxLen is handed to each function
InitFn ==
  /\ fnOp = "input"
  /\ fnIn \in Strings
  /\ fnOut = <<>>
  /\ directoryPath = <<>>
  /\ pathKind = "dir"
  /\ files = [f \in {} |-> "pre"]
  /\ fsMutations = <<>>
  /\ pc = "idle"
  /\ prompts = <<>>
  /\ circuitNameDefault = <<>>
  /\ packageNameDefault = <<>>
  /\ feedback = ""
  /\ circuitName = <<>>
  /\ circuitType = ""
  /\ packageName = <<>>
  /\ provingScheme = ""
  /\ curveName = <<>>
  /\ context = NoContext
  /\ contextKeys = {}
  /\ renderCalls = <<>>
  /\ renderResults = <<>>
  /\ execCalls = <<>>
  /\ gitInstalled = FALSE
  /\ gitOutcome = "none"
  /\ loggedError = {}
  /\ thrownError = {}
  /\ log = <<>>
  /\ exitStatus = {}
  /\ proceed = {}
  /\ initializeGit = {}
  /\ execResults = <<>>

runVars == <<directoryPath, pathKind, files, fsMutations, pc, prompts,
             circuitNameDefault, packageNameDefault, feedback,
             circuitName, circuitType, packageName, provingScheme, curveName,
             context, contextKeys, renderCalls, renderResults, execCalls, gitInstalled,
             gitOutcome, loggedError, thrownError, log, exitStatus, proceed, initializeGit,
             execResults>>

ApplyValidateCircuitName ==
  /\ fnOp = "input"
  /\ fnOp' = "validateCircuitName"
  /\ fnOut' = validateCircuitName(fnIn)
  /\ UNCHANGED <<fnIn, runVars>>

ApplyValidatePackageName ==
  /\ fnOp = "input"
  /\ fnOp' = "validatePackageName"
  /\ fnOut' = validatePackageName(fnIn)
  /\ UNCHANGED <<fnIn, runVars>>

ApplyDefaultPackageName ==
  /\ fnOp = "input"
  /\ fnOp' = "defaultPackageName"
  /\ fnOut' = defaultPackageName(fnIn)
  /\ UNCHANGED <<fnIn, runVars>>

\* the derivation applied to its own result
ApplyDefaultPackageNameAgain ==
  /\ fnOp = "defaultPackageName"
  /\ fnOp' = "defaultPackageNameTwice"
  /\ fnOut' = defaultPackageName(fnOut)
  /\ UNCHANGED <<fnIn, runVars>>

NextFn ==
  \/ ApplyValidateCircuitName
  \/ ApplyValidatePackageName
  \/ ApplyDefaultPackageName
  \/ ApplyDefaultPackageNameAgain

SpecFn == InitFn /\ [][NextFn]_vars

\* ----------------------------------------------------------------- claims
\* the characters of the model, listed by kind without reference to Ord
LowercaseLetters == {"a", "b", "l", "n", "s", "w", "z"}
UppercaseLetters == {"A", "B", "L", "N", "S", "W", "Z"}
DecimalDigits == {"0", "1", "2", "3", "4", "5", "6", "7", "8", "9"}
NameAlphabet == {"-", "_"} \cup LowercaseLetters \cup UppercaseLetters \cup DecimalDigits

Asked(name) == \E i \in 1..Len(prompts) : prompts[i] = name

\* both scaffoldDirectory calls have resolved
AfterScaffold ==
  pc \in {"gitVersion", "initializeGit", "bootstrap1", "bootstrap2", "bootstrap3",
          "returned"}

\* the version probe has settled
AfterProbe ==
  pc \in {"initializeGit", "bootstrap1", "bootstrap2", "bootstrap3", "returned"}

\* C1: when the target path exists and is not a directory, the only step the
\* run takes is process.exit(1): no prompt is asked, scaffoldDirectory is not
\* called and no git command runs.
C1_NotADirectoryAborts ==
  pathKind = "file" =>
    /\ pc \in {"start", "exited"}
    /\ pc = "exited" => exitStatus = {1}
    /\ prompts = <<>>
    /\ renderCalls = <<>>
    /\ execCalls = <<>>

C1_Witness == pathKind = "file" /\ pc = "exited" /\ exitStatus = {1}

\* C2: for an existing directory with at least one entry the overwrite
\* confirmation is the first prompt; declining it ends the run with exit
\* status 1, no scaffoldDirectory call and the directory untouched; accepting
\* it makes the circuit-name prompt the next one.
C2_OverwriteConfirmation ==
  /\ ( /\ pc # "start"
       /\ pathKind = "dir"
       /\ fsMutations = <<>>
       /\ renderCalls = <<>>
       /\ DOMAIN files # {} )
       => (Len(prompts) >= 1 /\ prompts[1] = "overwrite")
  /\ \A i \in 1..Len(prompts) : prompts[i] = "overwrite" => i = 1
  /\ proceed = {FALSE} =>
       /\ pc = "exited"
       /\ exitStatus = {1}
       /\ prompts = <<"overwrite">>
       /\ renderCalls = <<>>
       /\ fsMutations = <<>>
       /\ pathKind = "dir"
       /\ DOMAIN files # {}
       /\ \A f \in DOMAIN files : files[f] = "pre"
  /\ proceed = {TRUE} =>
       /\ Len(prompts) >= 2
       /\ prompts[1] = "overwrite"
       /\ prompts[2] = "circuitName"

C2_Witness ==
  /\ proceed = {FALSE}
  /\ pc = "exited"
  /\ DOMAIN files = {"main.go"}

\* C3: selecting circom, halo2 or noir ends the run with exit status 1
\* right after the kind selection: scaffoldDirectory is never called, none of
\* the package, scheme and curve prompts is asked and no git step runs.
C3_UnsupportedKindAborts ==
  circuitType \in {"circom", "halo2", "noir"} =>
    /\ pc = "exited"
    /\ exitStatus = {1}
    /\ renderCalls = <<>>
    /\ execCalls = <<>>
    /\ prompts[Len(prompts)] = "circuitType"
    /\ ~Asked("packageName") /\ ~Asked("provingScheme") /\ ~Asked("curveName")
    /\ ~Asked("initializeGit")

C3_Witness == circuitType = "noir" /\ pc = "exited" /\ exitStatus = {1}

\* C4: once both scaffoldDirectory calls have resolved there have been
\* exactly two calls, the first for "common" and the second for the selected
\* kind, both with the resolved target directory and a context holding the six
\* fields; and there are never more than two calls.
C4_TwoRenderCalls ==
  /\ Len(renderCalls) <= 2
  /\ AfterScaffold =>
       /\ Len(renderCalls) = 2
       /\ renderCalls[1].template = "common"
       /\ renderCalls[2].template = circuitType
       /\ circuitType = "gnark"
       /\ \A i \in 1..2 :
            /\ renderCalls[i].directory = directoryPath
            /\ {"circuitName", "circuitType", "packageName", "provingScheme",
                "curveName", "gnarkCurveName"} \subseteq renderCalls[i].keys

C4_Witness ==
  /\ pc = "gitVersion"
  /\ Len(renderCalls) = 2
  /\ renderCalls[2].template = "gnark"

\* C5 (state part): a bootstrap command that threw leaves the run returned
\* with the non-error exit status, outcome Failed.
C5_FailureContained ==
  \A i \in 2..Len(execResults) :
    ~execResults[i] => (pc = "returned" /\ exitStatus = {0} /\ gitOutcome = "Failed")

\* C5 (step part): the step on which a bootstrap command fails removes or
\* alters no file the scaffoldDirectory calls wrote.
C5_ScaffoldedFilesKept ==
  (gitOutcome # "Failed" /\ gitOutcome' = "Failed") =>
    \A f \in DOMAIN files :
      files[f] \in {"common", circuitType} =>
        (f \in DOMAIN files' /\ files'[f] = files[f])

\* C5: a failure of git init, git add or git commit is caught: the run
\* completes with exit status 0, never 1, and the failure handling removes or
\* alters no scaffolded file.
C5_BootstrapFailureCaught == []C5_FailureContained /\ [][C5_ScaffoldedFilesKept]_vars

C5_Witness ==
  /\ execResults = <<TRUE, TRUE, FALSE>>
  /\ gitOutcome = "Failed"
  /\ exitStatus = {0}
  /\ "sindri.json" \in DOMAIN files

\* C6: the git confirmation is asked exactly when the version probe succeeded
\* and the directory holds no .git entry; when the probe failed, .git exists
\* or the confirmation was declined, no bootstrap command runs and the
\* outcome is Skipped.
C6_GitConfirmation ==
  /\ ~AfterProbe => ~Asked("initializeGit")
  /\ Asked("initializeGit") => execResults[1]
  /\ pc = "initializeGit" => ".git" \notin DOMAIN files
  /\ (AfterProbe /\ ~Asked("initializeGit")) =>
       (~execResults[1] \/ ".git" \in DOMAIN files)
  /\ (AfterProbe /\ (~Asked("initializeGit") \/ initializeGit = {FALSE})) =>
       /\ pc = "returned"
       /\ gitOutcome = "Skipped"
       /\ Len(execCalls) = 1
       /\ execCalls[1].cmd = "git --version"
  /\ gitOutcome = "Skipped" => (~Asked("initializeGit") \/ initializeGit = {FALSE})

C6_Witness ==
  /\ pc = "returned"
  /\ gitOutcome = "Skipped"
  /\ execResults = <<TRUE>>
  /\ ".git" \in DOMAIN files
  /\ ~Asked("initializeGit")

\* the execSync calls of a run that bootstraps the repository
ExpectedExecCalls ==
  << [cmd |-> "git --version", cwd |-> {}],
     [cmd |-> "git init .", cwd |-> {directoryPath}],
     [cmd |-> "git add .", cwd |-> {directoryPath}],
     [cmd |-> "git commit -m 'Initial commit.'", cwd |-> {directoryPath}] >>

\* C7: after the confirmation is accepted git init, git add and git commit
\* run in that order, each at most once and in the target directory; a
\* command runs only after the one before it succeeded, a failing command is
\* the last one run, and Succeeded is reached only when all three succeeded.
C7_BootstrapOrder ==
  /\ Len(execCalls) <= 4
  /\ \A i \in 1..Len(execCalls) : execCalls[i] = ExpectedExecCalls[i]
  /\ (Len(execCalls) >= 2) <=> (initializeGit = {TRUE})
  /\ \A i \in 3..Len(execCalls) : Len(execResults) >= i - 1 /\ execResults[i - 1]
  /\ \A j \in 2..Len(execResults) : ~execResults[j] => Len(execCalls) = j
  /\ (gitOutcome = "Succeeded") <=>
       (Len(execResults) = 4 /\ \A j \in 2..4 : execResults[j])

C7_Witness ==
  /\ gitOutcome = "Succeeded"
  /\ Len(execCalls) = 4
  /\ execCalls[4].cmd = "git commit -m 'Initial commit.'"

\* C8: the circuit-name validator accepts a string exactly when it is
\* non-empty and every character is in [-a-zA-Z0-9_]; every other string gets
\* a non-empty rejection message.
C8_CircuitNameValidator ==
  fnOp = "validateCircuitName" =>
    /\ fnOut.valid <=>
         (fnIn # <<>> /\ \A i \in 1..Len(fnIn) : fnIn[i] \in NameAlphabet)
    /\ ~fnOut.valid => fnOut.reason # ""
    /\ fnOut.valid => fnOut.reason = ""

C8_Witness ==
  /\ fnOp = "validateCircuitName"
  /\ fnIn = <<"Z", "[">>
  /\ ~fnOut.valid
  /\ fnOut.reason # ""

\* C9: the package-name validator accepts a string exactly when it is a
\* lowercase letter followed only by lowercase letters and digits; every other
\* string, the empty one included, gets a non-empty rejection message.
C9_PackageNameValidator ==
  fnOp = "validatePackageName" =>
    /\ fnOut.valid <=>
         ( /\ fnIn # <<>>
           /\ fnIn[1] \in LowercaseLetters
           /\ \A i \in 2..Len(fnIn) : fnIn[i] \in LowercaseLetters \cup DecimalDigits )
    /\ ~fnOut.valid => fnOut.reason # ""

C9_Witness ==
  /\ fnOp = "validatePackageName"
  /\ fnIn = <<"a", "Z">>
  /\ ~fnOut.valid
  /\ fnOut.reason # ""

\* C10: the default package name derivation applied to its own result gives
\* that result again.
C10_DefaultPackageNameIdempotent ==
  fnOp = "defaultPackageNameTwice" => fnOut = defaultPackageName(fnIn)

C10_Witness ==
  /\ fnOp = "defaultPackageNameTwice"
  /\ fnIn = <<"Z", "9", "a">>
  /\ fnOut = <<"a">>

\* the Gnark spelling of each curve option, written out
GnarkSpelling(curve) ==
  CASE curve = <<"b", "n", "2", "5", "4">> -> <<"B", "N", "2", "5", "4">>
    [] curve = <<"b", "l", "s", "1", "2", "-", "3", "7", "7">> ->
         <<"B", "L", "S", "1", "2", "_", "3", "7", "7">>
    [] curve = <<"b", "l", "s", "1", "2", "-", "3", "8", "1">> ->
         <<"B", "L", "S", "1", "2", "_", "3", "8", "1">>
    [] curve = <<"b", "l", "s", "2", "4", "-", "3", "1", "5">> ->
         <<"B", "L", "S", "2", "4", "_", "3", "1", "5">>
    [] curve = <<"b", "w", "6", "-", "6", "3", "3">> -> <<"B", "W", "6", "_", "6", "3", "3">>
    [] curve = <<"b", "w", "6", "-", "7", "6", "1">> -> <<"B", "W", "6", "_", "7", "6", "1">>

\* C11: for each of the six curve options the context's gnarkCurveName is
\* the curve name in upper case with '-' replaced by '_': it holds no '-' and no
\* lowercase letter, and bls12-377 gives BLS12_377. The field enters the
\* context with the curve answer, without a prompt of its own.
C11_GnarkCurveName ==
  /\ ~Asked("gnarkCurveName")
  /\ ("gnarkCurveName" \in contextKeys) <=> (curveName \in CurveNames)
  /\ "gnarkCurveName" \in contextKeys =>
       /\ context.curveName = curveName
       /\ context.gnarkCurveName = GnarkSpelling(curveName)
       /\ \A i \in 1..Len(context.gnarkCurveName) :
            /\ context.gnarkCurveName[i] # "-"
            /\ context.gnarkCurveName[i] \notin LowercaseLetters
       /\ prompts[Len(prompts)] \in {"curveName", "initializeGit"}

C11_Witness ==
  /\ "gnarkCurveName" \in contextKeys
  /\ context.curveName = <<"b", "l", "s", "1", "2", "-", "3", "7", "7">>
  /\ context.gnarkCurveName = <<"B", "L", "S", "1", "2", "_", "3", "7", "7">>

\* C12 (state part): a scaffoldDirectory call that rejected is the last one
\* made, and the run has ended as an unhandled rejection: no exit status set
\* by the action, no placeholder removal, no git probe, prompt or command.
C12_RejectionEndsRun ==
  /\ (Len(renderResults) >= 1 /\ ~renderResults[1]) => Len(renderCalls) = 1
  /\ \A i \in 1..Len(renderResults) :
       ~renderResults[i] =>
         /\ Len(renderCalls) = i
         /\ pc = "rejected"
         /\ exitStatus = {}
         /\ gitOutcome = "none"
         /\ execCalls = <<>>
         /\ ~Asked("initializeGit")
         /\ \A k \in 1..Len(fsMutations) : fsMutations[k].op # "rmSync"

\* C12 (step part): the step on which a scaffoldDirectory call rejects
\* removes no entry of the directory.
C12_NothingRemoved ==
  (pc # "rejected" /\ pc' = "rejected") => DOMAIN files \subseteq DOMAIN files'

\* C12: if the first scaffoldDirectory call fails the second is never made;
\* if either fails the placeholder is not deleted, no git probe, prompt or
\* command happens, nothing written so far is removed and the run ends as an
\* unhandled failure, not as a normal completion.
C12_ScaffoldFailurePropagates == []C12_RejectionEndsRun /\ [][C12_NothingRemoved]_vars

C12_Witness ==
  /\ renderResults = <<TRUE, FALSE>>
  /\ pc = "rejected"
  /\ ".gitkeep" \in DOMAIN files
  /\ files[".gitkeep"] = "common"

\* C13 (step part): the first step of a run whose target is absent creates
\* the directory, parents included, and asks the circuit name; the first step
\* of a run whose target is an empty directory asks the circuit name and
\* creates nothing.
C13_GuardProceeds ==
  pc = "start" =>
    /\ pathKind = "absent" =>
         /\ pathKind' = "dir"
         /\ DOMAIN files' = {}
         /\ fsMutations' =
              <<[op |-> "mkdirSync", target |-> ".", recursive |-> TRUE]>>
         /\ pc' = "circuitName"
         /\ prompts' = <<"circuitName">>
    /\ (pathKind = "dir" /\ DOMAIN files = {}) =>
         /\ pathKind' = "dir"
         /\ DOMAIN files' = {}
         /\ fsMutations' = <<>>
         /\ pc' = "circuitName"
         /\ prompts' = <<"circuitName">>

\* C13 (state part): a run that began with the circuit-name prompt never
\* asks the overwrite confirmation, and a run that created the directory
\* began with the circuit-name prompt.
C13_NoOverwriteAsked ==
  /\ (prompts # <<>> /\ prompts[1] = "circuitName") => ~Asked("overwrite")
  /\ (\E k \in 1..Len(fsMutations) : fsMutations[k].op = "mkdirSync") =>
       (prompts # <<>> /\ prompts[1] = "circuitName")

\* C13: an absent target path is created (with missing parents) and the run
\* goes on to the circuit-name prompt without the overwrite confirmation; an
\* existing empty directory goes on the same way and nothing is created.
C13_AbsentOrEmptyProceeds == [][C13_GuardProceeds]_vars /\ []C13_NoOverwriteAsked

C13_Witness ==
  /\ pc = "circuitName"
  /\ fsMutations = <<[op |-> "mkdirSync", target |-> ".", recursive |-> TRUE]>>
  /\ prompts = <<"circuitName">>
  /\ pathKind = "dir"

\* the prompts up to the curve selection, in the order of the action
PromptOrder == <<"circuitName", "circuitType", "packageName", "provingScheme", "curveName">>

\* the prompts asked without a leading overwrite confirmation and a
\* trailing git confirmation
PromptsBetween ==
  LET from == IF prompts # <<>> /\ prompts[1] = "overwrite" THEN 2 ELSE 1
      to == IF prompts # <<>> /\ prompts[Len(prompts)] = "initializeGit"
            THEN Len(prompts) - 1 ELSE Len(prompts)
  IN  SubSeq(prompts, from, to)

\* the named prompt has its answer
Answered(name) ==
  CASE name = "overwrite" -> proceed # {}
    [] name = "circuitName" -> circuitName # <<>>
    [] name = "circuitType" -> circuitType # ""
    [] name = "packageName" -> packageName # <<>>
    [] name = "provingScheme" -> provingScheme # ""
    [] name = "curveName" -> curveName # <<>>
    [] name = "initializeGit" -> initializeGit # {}

\* C14: prompts are asked one at a time in the order (overwrite) ->
\* circuit name -> kind -> package name -> proving scheme -> curve: every
\* prompt but the last asked is answered and only the last can be pending;
\* the package-name prompt comes after the name and kind answers and its
\* default is derived from the accepted circuit name.
C14_PromptOrder ==
  /\ Len(PromptsBetween) <= Len(PromptOrder)
  /\ \A i \in 1..Len(PromptsBetween) : PromptsBetween[i] = PromptOrder[i]
  /\ \A i \in 1..Len(prompts) - 1 : Answered(prompts[i])
  /\ prompts # <<>> =>
       (Answered(prompts[Len(prompts)]) <=> pc # prompts[Len(prompts)])
  /\ Asked("packageName") =>
       /\ circuitName # <<>>
       /\ circuitType = "gnark"
       /\ packageNameDefault = defaultPackageName(circuitName)

C14_Witness ==
  /\ pc = "packageName"
  /\ prompts = <<"overwrite", "circuitName", "circuitType", "packageName">>
  /\ circuitName = <<"Z", "a">>
  /\ circuitNameDefault # circuitName
  /\ packageNameDefault = <<"a">>

\* the circuit-name rule and the package-name rule, written out
SatisfiesNameRule(s) == s # <<>> /\ \A i \in 1..Len(s) : s[i] \in NameAlphabet
SatisfiesPackageRule(s) ==
  /\ s # <<>>
  /\ s[1] \in LowercaseLetters
  /\ \A i \in 2..Len(s) : s[i] \in LowercaseLetters \cup DecimalDigits

\* C15 (state part): while a rejection message is shown the same text
\* prompt is pending, unanswered, and the run has not ended; every
\* scaffoldDirectory call carries a circuitName and a packageName that
\* satisfy their rules.
C15_OnlyValidAnswersPass ==
  /\ feedback # "" =>
       /\ pc \in {"circuitName", "packageName"}
       /\ prompts[Len(prompts)] = pc
       /\ ~Answered(pc)
       /\ exitStatus = {}
  /\ \A i \in 1..Len(renderCalls) :
       /\ SatisfiesNameRule(renderCalls[i].context.circuitName)
       /\ SatisfiesPackageRule(renderCalls[i].context.packageName)

\* C15 (step part): a step that leaves a rejection message on a text prompt
\* neither advances nor ends the run.
C15_RejectionStays ==
  (pc \in {"circuitName", "packageName"} /\ feedback' # "") =>
    /\ pc' = pc
    /\ prompts' = prompts
    /\ exitStatus' = {}
    /\ UNCHANGED <<circuitName, packageName, context, contextKeys, renderCalls>>

\* C15: a rejected answer to the circuit-name or package-name prompt never
\* advances the flow and never aborts it; the question stays pending until a
\* valid answer is given, so every scaffoldDirectory call gets a context
\* whose circuitName and packageName satisfy their rules.
C15_RejectedAnswersReprompt == []C15_OnlyValidAnswersPass /\ [][C15_RejectionStays]_vars

C15_Witness ==
  /\ pc = "packageName"
  /\ feedback = "Package names must begin with a lowercase letter and only be followed by alphanumeric characters."
  /\ packageName = <<>>
  /\ exitStatus = {}

\* C16 (step part): no step removes a field of the context or changes the
\* value of a field it has.
C16_FieldsKept ==
  \A key \in contextKeys : key \in contextKeys' /\ context'[key] = context[key]

\* C16 (state part): the context holds nothing, then circuitName and
\* circuitType as answered, then also the four fields of the supported
\* branch; both scaffoldDirectory calls get the same context.
C16_ContextShape ==
  /\ contextKeys \in
       { {},
         {"circuitName", "circuitType"},
         {"circuitName", "circuitType", "curveName", "gnarkCurveName", "packageName",
          "provingScheme"} }
  /\ contextKeys # {} =>
       (context.circuitName = circuitName /\ context.circuitType = circuitType)
  /\ "curveName" \in contextKeys =>
       /\ circuitType = "gnark"
       /\ context.packageName = packageName
       /\ context.provingScheme = provingScheme
       /\ context.curveName = curveName
  /\ circuitType \in {"circom", "halo2", "noir"} =>
       contextKeys = {"circuitName", "circuitType"}
  /\ \A i \in 1..Len(renderCalls) :
       renderCalls[i].context = context /\ renderCalls[i].keys = contextKeys

\* C16: a context field, once set, keeps its value for the rest of the run;
\* the context starts with circuitName and circuitType, is extended with
\* curveName, gnarkCurveName, packageName and provingScheme on the supported
\* branch only, and is not modified between the two scaffoldDirectory calls.
C16_ContextOnlyExtended == [][C16_FieldsKept]_vars /\ []C16_ContextShape

C16_Witness ==
  /\ pc = "scaffoldKind"
  /\ Len(renderCalls) = 2
  /\ Cardinality(contextKeys) = 6
  /\ renderCalls[1].context = renderCalls[2].context

\* the rmSync calls among the filesystem calls of the action
RemovalCalls == {k \in 1..Len(fsMutations) : fsMutations[k].op = "rmSync"}

\* C17 (state part): the action removes at most one file, the placeholder,
\* and only once both scaffoldDirectory calls have resolved; from then on,
\* in particular while git add runs, the directory holds no placeholder.
C17_PlaceholderGone ==
  /\ Cardinality(RemovalCalls) <= 1
  /\ \A k \in RemovalCalls :
       /\ fsMutations[k].target = ".gitkeep"
       /\ AfterScaffold
       /\ renderResults = <<TRUE, TRUE>>
  /\ AfterScaffold => ".gitkeep" \notin DOMAIN files
  /\ execCalls # <<>> => ".gitkeep" \notin DOMAIN files

\* C17 (step part): an entry leaves the directory only on the step that
\* follows the second scaffoldDirectory call and precedes the git probe, the
\* entry is the placeholder and it is removed by rmSync; on that step rmSync
\* is called exactly when the placeholder is there.
C17_OnlyPlaceholderRemoved ==
  /\ DOMAIN files \ DOMAIN files' \subseteq {".gitkeep"}
  /\ DOMAIN files \ DOMAIN files' # {} =>
       /\ pc = "scaffoldKind"
       /\ pc' = "gitVersion"
       /\ execCalls = <<>>
  /\ (pc = "scaffoldKind" /\ pc' = "gitVersion") =>
       IF ".gitkeep" \in DOMAIN files
       THEN fsMutations' = Append(fsMutations, [op |-> "rmSync", target |-> ".gitkeep"])
       ELSE fsMutations' = fsMutations /\ DOMAIN files \subseteq DOMAIN files'
  /\ ~(pc = "scaffoldKind" /\ pc' = "gitVersion") =>
       \A k \in 1..Len(fsMutations') :
         fsMutations'[k].op = "rmSync" => (k <= Len(fsMutations) /\ fsMutations[k].op = "rmSync")

\* C17: the placeholder .gitkeep is deleted, if it exists, only after both
\* scaffoldDirectory calls succeeded and before the git probe; if it does not
\* exist nothing is deleted; so it is never in the directory when git add
\* runs, and it is the only file the run ever removes.
C17_PlaceholderCleanup == []C17_PlaceholderGone /\ [][C17_OnlyPlaceholderRemoved]_vars

C17_Witness ==
  /\ pc = "bootstrap2"
  /\ RemovalCalls # {}
  /\ ".gitkeep" \notin DOMAIN files
  /\ execCalls[Len(execCalls)].cmd = "git add ."

\* C18: when a bootstrap command fails, the object logged at error level is
\* the caught error with each of output, stderr and stdout that it has set to
\* "<truncated>": no key is added, every other field keeps its value, and no
\* raw buffer is logged.
C18_DiagnosticTruncated ==
  /\ (thrownError # {}) <=> (gitOutcome = "Failed")
  /\ (loggedError # {}) <=> (gitOutcome = "Failed")
  /\ \A raw \in thrownError :
       /\ Cardinality(loggedError) = 1
       /\ \A logged \in loggedError :
            /\ DOMAIN logged = DOMAIN raw
            /\ \A key \in DOMAIN raw :
                 IF key \in {"output", "stderr", "stdout"}
                 THEN logged[key] = "<truncated>"
                 ELSE logged[key] = raw[key]
            /\ \A key \in DOMAIN logged : logged[key] # "raw"
       /\ log[Len(log)].level = "error"

C18_Witness ==
  /\ gitOutcome = "Failed"
  /\ thrownError = {[status |-> "1", message |-> "Command failed", stderr |-> "raw"]}
  /\ loggedError =
       {[status |-> "1", message |-> "Command failed", stderr |-> "<truncated>"]}

\* C19: for every accepted circuit name, the default offered by the
\* package-name prompt is the empty string or a string the package-name
\* validator accepts.
C19_DefaultIsConfirmable ==
  Asked("packageName") =>
    /\ validateCircuitName(circuitName).valid
    /\ \/ packageNameDefault = <<>>
       \/ validatePackageName(packageNameDefault).valid

\* the ways a run ends
Terminated == pc \in {"exited", "rejected", "returned"}
AbortedWithExit1 ==
  /\ pc = "exited"
  /\ exitStatus = {1}
  /\ gitOutcome = "none"
  /\ renderCalls = <<>>
  /\ \/ pathKind = "file"
     \/ proceed = {FALSE}
     \/ circuitType \in {"circom", "halo2", "noir"}
UnhandledScaffoldFailure ==
  /\ pc = "rejected"
  /\ exitStatus = {}
  /\ gitOutcome = "none"
  /\ \E i \in 1..Len(renderResults) : ~renderResults[i]
CompletedNormally ==
  /\ pc = "returned"
  /\ exitStatus = {0}
  /\ gitOutcome \in {"Skipped", "Succeeded", "Failed"}
  /\ renderResults = <<TRUE, TRUE>>

\* C20 (state part): a run that has ended has exactly one of the terminal
\* outcomes, and a run that has not ended has none.
C20_OneOutcome ==
  /\ Terminated =>
       Cardinality({o \in {"abort", "unhandled", "completed"} :
                      \/ o = "abort" /\ AbortedWithExit1
                      \/ o = "unhandled" /\ UnhandledScaffoldFailure
                      \/ o = "completed" /\ CompletedNormally}) = 1
  /\ ~Terminated => (exitStatus = {} /\ gitOutcome = "none")

\* C20: with every pending prompt eventually answered acceptably and every
\* external call eventually settling, every run ends, in exactly one of:
\* abort with exit status 1, unhandled scaffolding failure, or normal
\* completion with bootstrap outcome Skipped, Succeeded or Failed; a run that
\* has ended takes no further step.
C20_RunTerminates == <>Terminated /\ []C20_OneOutcome /\ [][~Terminated]_vars

C20_Witness ==
  /\ CompletedNormally
  /\ gitOutcome = "Skipped"
  /\ initializeGit = {FALSE}

====
